---- MODULE Spec2Model ----
\* Model of src/main.py: the /analyze_resume pipeline (extract_text_from_pdf,
\* get_gemini_response, json.loads, JSONResponse) and the GET / health probe,
\* served by one event loop.  A text is a sequence of character fragments; a
\* service output is a sequence of JSON tokens.
EXTENDS Integers, Sequences, FiniteSets, TLC

\* ---------------------------------------------------------------- bounds
MaxPages == 2

\* ------------------------------------------------------------------ texts
\* characters str.strip() removes (main.py:122, :144)
Whitespace == {" ", "\n", "\t", "\f"}

RECURSIVE lstrip(_)
lstrip(s) == IF s # <<>> /\ Head(s) \in Whitespace THEN lstrip(Tail(s)) ELSE s

RECURSIVE rstrip(_)
rstrip(s) ==
    IF s # <<>> /\ s[Len(s)] \in Whitespace
    THEN rstrip(SubSeq(s, 1, Len(s) - 1)) ELSE s

\* str.strip()
strip(s) == rstrip(lstrip(s))

\* sep.join(parts)
RECURSIVE join(_, _)
join(sep, parts) ==
    IF parts = <<>> THEN <<>>
    ELSE IF Len(parts) = 1 THEN parts[1]
    ELSE parts[1] \o sep \o join(sep, Tail(parts))

\* ---------------------------------------------------------------- documents
\* A page has a text layer (None or a string, as page.extract_text() gives it)
\* and the text that OCR recognizes on its rendered image.
TextPage  == [layerNone |-> FALSE, layer |-> <<"a">>, image |-> <<"a", "\f">>]
ScanPage  == [layerNone |-> TRUE,  layer |-> <<>>,    image |-> <<"b", "\f">>]
BlankPage == [layerNone |-> FALSE, layer |-> <<" ">>, image |-> <<"\f">>]
PageKinds == {TextPage, ScanPage, BlankPage}

PageSeqs == UNION {[1..n -> PageKinds] : n \in 0..MaxPages}

\* fault: malformed bytes on which the text-layer reader or the image renderer
\* raises
Faults == {"none", "reader", "renderer"}
\* malformed documents are sampled among the one-page documents only
Documents ==
    {d \in [pages : PageSeqs, fault : Faults] :
        d.fault = "none" \/ Len(d.pages) = 1}

JobDescriptions == {<<"dev">>, <<>>}

NoDoc == [pages |-> <<>>, fault |-> "none"]

\* ---------------------------------------------------------------- extraction
\* page.extract_text() or ""          (main.py:121)
PageText(page) == IF page.layerNone \/ page.layer = <<>> THEN <<>> ELSE page.layer

\* "\n".join([page.extract_text() or "" for page in reader.pages])
TextLayer(d) == join(<<"\n">>, [i \in 1..Len(d.pages) |-> PageText(d.pages[i])])

\* variant: the text layer is tested without strip()
TextLayerNonEmpty(t) == t # <<>>

\* if text.strip():                   (main.py:122)
TextLayerAccepted(t) == strip(t) # <<>>

\* file.file.read() from position p: the part of the stream after p
ReadFrom(d, p) == SubSeq(d.pages, p + 1, Len(d.pages))

\* for image in images: ocr_text += pytesseract.image_to_string(image)
RECURSIVE OcrText(_)
OcrText(images) ==
    IF images = <<>> THEN <<>> ELSE images[1].image \o OcrText(Tail(images))

\* --------------------------------------------------------------------- JSON
\* A JSON value: kind is "null", "num", "str", "arr", "obj" or "member"
\* (a key/value pair of an object, its key in atom, its value in items).
JNull == [kind |-> "null", atom |-> "", items |-> <<>>]
JNum(tok) == [kind |-> "num", atom |-> tok, items |-> <<>>]
JStr(tok) == [kind |-> "str", atom |-> tok, items |-> <<>>]
JArr(elems) == [kind |-> "arr", atom |-> "", items |-> elems]
JMember(key, val) == [kind |-> "member", atom |-> key, items |-> <<val>>]
JObj(members) == [kind |-> "obj", atom |-> "", items |-> members]

\* tokens of the service's output; json.loads reads NaN as a float constant
NumberTokens == {"1", "NaN"}
StringTokens == {"\"Total_Score\"", "\"Years_Short\"", "\"85%\""}

RECURSIVE SkipWs(_)
SkipWs(s) == IF s # <<>> /\ Head(s) = " " THEN SkipWs(Tail(s)) ELSE s

\* dict assignment: a repeated key keeps its place and takes the last value
SetMember(members, key, val) ==
    IF \E i \in 1..Len(members) : members[i].atom = key
    THEN [i \in 1..Len(members) |->
             IF members[i].atom = key THEN JMember(key, val) ELSE members[i]]
    ELSE Append(members, JMember(key, val))

ParseFail == [ok |-> FALSE, val |-> JNull, rest |-> <<>>]
ParseOk(v, r) == [ok |-> TRUE, val |-> v, rest |-> r]

RECURSIVE ParseValue(_), ParseElements(_, _), ParseMembers(_, _)
\* json.decoder scan_once: one value at the head of s
ParseValue(s) ==
    IF s = <<>> THEN ParseFail
    ELSE LET h == Head(s)
             u == SkipWs(Tail(s))
         IN  IF h \in StringTokens THEN ParseOk(JStr(h), Tail(s))
             ELSE IF h \in NumberTokens THEN ParseOk(JNum(h), Tail(s))
             ELSE IF h = "[" THEN
                 IF u # <<>> /\ Head(u) = "]" THEN ParseOk(JArr(<<>>), Tail(u))
                 ELSE ParseElements(u, <<>>)
             ELSE IF h = "{" THEN
                 IF u # <<>> /\ Head(u) = "}" THEN ParseOk(JObj(<<>>), Tail(u))
                 ELSE ParseMembers(u, <<>>)
             ELSE ParseFail

ParseElements(s, acc) ==
    LET r == ParseValue(s)
        u == SkipWs(r.rest)
    IN  IF ~r.ok \/ u = <<>> THEN ParseFail
        ELSE IF Head(u) = "]" THEN ParseOk(JArr(Append(acc, r.val)), Tail(u))
        ELSE IF Head(u) = "," THEN ParseElements(SkipWs(Tail(u)), Append(acc, r.val))
        ELSE ParseFail

ParseMembers(s, acc) ==
    IF s = <<>> \/ Head(s) \notin StringTokens THEN ParseFail
    ELSE LET u == SkipWs(Tail(s))
         IN  IF u = <<>> \/ Head(u) # ":" THEN ParseFail
             ELSE LET r == ParseValue(SkipWs(Tail(u)))
                      v == SkipWs(r.rest)
                      acc2 == SetMember(acc, Head(s), r.val)
                  IN  IF ~r.ok \/ v = <<>> THEN ParseFail
                      ELSE IF Head(v) = "}" THEN ParseOk(JObj(acc2), Tail(v))
                      ELSE IF Head(v) = "," THEN ParseMembers(SkipWs(Tail(v)), acc2)
                      ELSE ParseFail

\* json.loads(gemini_response): ok = FALSE stands for json.JSONDecodeError
json_loads(s) ==
    LET r == ParseValue(SkipWs(s))
    IN  IF r.ok /\ SkipWs(r.rest) = <<>> THEN [ok |-> TRUE, val |-> r.val]
        ELSE [ok |-> FALSE, val |-> JNull]

\* JSONResponse.render: json.dumps(content, allow_nan=False) raises ValueError
\* on a non-finite float anywhere in the content
RECURSIVE Renderable(_)
Renderable(v) ==
    /\ ~(v.kind = "num" /\ v.atom = "NaN")
    /\ \A i \in 1..Len(v.items) : Renderable(v.items[i])

\* ------------------------------------------------------------------ responses
\* fields: the keys of a payload the endpoint builds itself; content: the
\* structure relayed by JSONResponse(content=response_json)
Response(st, fs, err, rawtext, val) ==
    [status |-> st, fields |-> fs, error |-> err, raw_response |-> rawtext,
     content |-> val]

\* variant: the 400 payload uses the key `detail`
UnreadableDetail ==
    [status |-> 400, fields |-> {"detail"},
     error |-> <<"Could not extract text from PDF or image.">>,
     raw_response |-> <<>>, content |-> JNull]

\* main.py:145-148
UnreadableResponse ==
    Response(400, {"error"}, <<"Could not extract text from PDF or image.">>,
             <<>>, JNull)

\* variant: the parse-failure payload leaves the raw output out
ParseFailureNoRaw(rawtext) ==
    [status |-> 500, fields |-> {"error"},
     error |-> <<"Gemini output is not valid JSON.">>,
     raw_response |-> <<>>, content |-> JNull]

\* main.py:155-158
ParseFailureResponse(rawtext) ==
    Response(500, {"error", "raw_response"},
             <<"Gemini output is not valid JSON.">>, rawtext, JNull)

\* main.py:160
SuccessResponse(val) == Response(200, {}, <<>>, <<>>, val)

\* main.py:161-162
ExceptionResponse(msg) == Response(500, {"error"}, msg, <<>>, JNull)

\* str(e) of the exceptions the pipeline can raise
ReaderError == <<"PdfReadError">>
RendererError == <<"PDFPageCountError">>
ServiceError == <<"ServiceUnavailable">>
RenderError == <<"Out of range float values are not JSON compliant">>

\* main.py:166
HealthResponse == [status |-> 200, message |-> "Resume Analyzer API is running!"]

\* ------------------------------------------------------------------- gateway
\* variant: the resume text is trimmed before it is interpolated
BuildPromptStripped(resume_text, job_description) ==
    <<"Analyze this resume ... Job Description: ">> \o job_description
        \o <<"\n    Resume Text: ">> \o strip(resume_text) \o <<"\n    ">>

\* the f-string of main.py:37-107
PromptHead == <<"Analyze this resume ... Job Description: ">>
PromptMid == <<"\n    Resume Text: ">>
PromptTail == <<"\n    ">>
BuildPrompt(resume_text, job_description) ==
    PromptHead \o job_description \o PromptMid \o resume_text \o PromptTail

\* what model.generate_content(prompt) / result.text can give back
ServiceTexts ==
    { <<"{", "\"Total_Score\"", ":", " ", "\"85%\"", ",",
        "\"Years_Short\"", ":", "[", "1", ",", "1", "]", "}", " ">>,
      <<"{", "\"Years_Short\"", ":", "NaN", "}">>,
      <<"{", "\"Total_Score\"", ":">>,
      <<"Sorry">> }
Outcomes ==
    {[kind |-> "text", text |-> t] : t \in ServiceTexts}
        \cup {[kind |-> "raise", text |-> ServiceError]}

\* ---------------------------------------------------------------------- state
Reqs == {"r1", "r2"}
Probes == {"p1"}
NoReq == "none"

VARIABLES
    pc,         \* request -> "idle", "received", "ocr", "extracted", "calling", "responded"
    doc,        \* request -> uploaded document
    jd,         \* request -> job_description form field
    pos,        \* request -> position of file.file, in pages
    text,       \* request -> resume_text
    extracted,  \* request -> extract_text_from_pdf has returned
    ocrRead,    \* request -> sequence of the pages sequences handed to the renderer
    prompt,     \* request -> sequence of the prompts sent to the service
    raw,        \* request -> gemini_response
    resp,       \* request -> sequence of the responses sent
    loop,       \* the request whose handler occupies the event loop, or NoReq
    memo,       \* the service's answers so far: pairs <<prompt, outcome>>
    probe,      \* probe -> "idle", "pending", "answered"
    probeResp   \* probe -> sequence of the responses sent

reqVars == <<pc, doc, jd, pos, text, extracted, ocrRead, prompt, raw, resp>>
probeVars == <<probe, probeResp>>
vars == <<pc, doc, jd, pos, text, extracted, ocrRead, prompt, raw, resp, loop,
          memo, probe, probeResp>>

Init ==
    /\ pc = [r \in Reqs |-> "idle"]
    /\ doc = [r \in Reqs |-> NoDoc]
    /\ jd = [r \in Reqs |-> <<>>]
    /\ pos = [r \in Reqs |-> 0]
    /\ text = [r \in Reqs |-> <<>>]
    /\ extracted = [r \in Reqs |-> FALSE]
    /\ ocrRead = [r \in Reqs |-> <<>>]
    /\ prompt = [r \in Reqs |-> <<>>]
    /\ raw = [r \in Reqs |-> <<>>]
    /\ resp = [r \in Reqs |-> <<>>]
    /\ loop = NoReq
    /\ memo = {}
    /\ probe = [p \in Probes |-> "idle"]
    /\ probeResp = [p \in Probes |-> <<>>]

\* the handler of r returns response x: the response is sent, the upload is
\* closed and the event loop is free again
Return(r, x) ==
    /\ resp' = [resp EXCEPT ![r] = Append(@, x)]
    /\ pc' = [pc EXCEPT ![r] = "responded"]
    /\ pos' = [pos EXCEPT ![r] = 0]
    /\ loop' = NoReq

\* a POST /analyze_resume arrives with its two form fields
Receive(r, d, j) ==
    /\ pc[r] = "idle"
    /\ pc' = [pc EXCEPT ![r] = "received"]
    /\ doc' = [doc EXCEPT ![r] = d]
    /\ jd' = [jd EXCEPT ![r] = j]
    /\ UNCHANGED <<pos, text, extracted, ocrRead, prompt, raw, resp, loop, memo,
                   probeVars>>

\* variant: a reader failure is swallowed
ReaderNeverRaises(d) == FALSE

\* main.py:120: pdf.PdfReader(file.file) raises on this document
ReaderRaises(d) == d.fault = "reader"

\* main.py:127: convert_from_bytes raises on this document
RendererRaises(d) == d.fault = "renderer"

\* main.py:142-143, 119-123: the handler starts on the event loop and reads the
\* text layer; the reader leaves the stream at a position of its own
ReadTextLayer(r) ==
    /\ pc[r] = "received"
    /\ loop = NoReq
    /\ IF ReaderRaises(doc[r])
       THEN /\ Return(r, ExceptionResponse(ReaderError))
            /\ UNCHANGED <<text, extracted>>
       ELSE /\ \E p \in 0..Len(doc[r].pages) : pos' = [pos EXCEPT ![r] = p]
            /\ loop' = r
            /\ resp' = resp
            /\ IF TextLayerAccepted(TextLayer(doc[r]))
               THEN /\ text' = [text EXCEPT ![r] = TextLayer(doc[r])]
                    /\ extracted' = [extracted EXCEPT ![r] = TRUE]
                    /\ pc' = [pc EXCEPT ![r] = "extracted"]
               ELSE /\ pc' = [pc EXCEPT ![r] = "ocr"]
                    /\ UNCHANGED <<text, extracted>>
    /\ UNCHANGED <<doc, jd, ocrRead, prompt, raw, memo, probeVars>>

\* variant: the stream is read where the reader left it
OcrInputNoRewind(d, p) == ReadFrom(d, p)

\* main.py:126-127: file.file.seek(0); file.file.read()
OcrInput(d, p) == ReadFrom(d, 0)

\* main.py:126-131: the OCR fallback
Ocr(r) ==
    /\ pc[r] = "ocr"
    /\ loop = r
    /\ ocrRead' = [ocrRead EXCEPT ![r] = Append(@, OcrInput(doc[r], pos[r]))]
    /\ IF RendererRaises(doc[r])
       THEN /\ Return(r, ExceptionResponse(RendererError))
            /\ UNCHANGED <<text, extracted>>
       ELSE /\ pos' = [pos EXCEPT ![r] = Len(doc[r].pages)]
            /\ text' = [text EXCEPT ![r] = OcrText(OcrInput(doc[r], pos[r]))]
            /\ extracted' = [extracted EXCEPT ![r] = TRUE]
            /\ pc' = [pc EXCEPT ![r] = "extracted"]
            /\ UNCHANGED <<resp, loop>>
    /\ UNCHANGED <<doc, jd, prompt, raw, memo, probeVars>>

\* variant: the empty check without strip()
ExtractionEmptyNoStrip(t) == t = <<>>

\* main.py:144: not resume_text.strip()
ExtractionEmpty(t) == strip(t) = <<>>

\* main.py:144-150, 36-114: the empty check, then the prompt is built and
\* model.generate_content(input_prompt) is entered
Analyze(r) ==
    /\ pc[r] = "extracted"
    /\ loop = r
    /\ IF ExtractionEmpty(text[r])
       THEN /\ Return(r, UnreadableResponse)
            /\ UNCHANGED prompt
       ELSE /\ prompt' = [prompt EXCEPT ![r] = Append(@, BuildPrompt(text[r], jd[r]))]
            /\ pc' = [pc EXCEPT ![r] = "calling"]
            /\ UNCHANGED <<pos, resp, loop>>
    /\ UNCHANGED <<doc, jd, text, extracted, ocrRead, raw, memo, probeVars>>

\* the service is deterministic: a prompt it has answered gets the same
\* outcome again
ServiceOutcomes(p) ==
    IF \E m \in memo : m[1] = p THEN {m[2] : m \in {x \in memo : x[1] = p}}
    ELSE Outcomes

\* main.py:151-160: json.loads, then the response
ResponseFor(rawtext) ==
    IF ~json_loads(rawtext).ok THEN ParseFailureResponse(rawtext)
    ELSE IF Renderable(json_loads(rawtext).val)
         THEN SuccessResponse(json_loads(rawtext).val)
         ELSE ExceptionResponse(RenderError)

\* variant: output that fails to parse is asked for again
ServiceReturnRetry(r) ==
    /\ pc[r] = "calling"
    /\ loop = r
    /\ \E o \in ServiceOutcomes(prompt[r][Len(prompt[r])]) :
          /\ memo' = memo \cup {<<prompt[r][Len(prompt[r])], o>>}
          /\ IF o.kind = "raise"
             THEN /\ Return(r, ExceptionResponse(o.text))
                  /\ raw' = raw
             ELSE /\ raw' = [raw EXCEPT ![r] = o.text]
                  /\ IF json_loads(o.text).ok
                     THEN Return(r, ResponseFor(o.text))
                     ELSE /\ pc' = [pc EXCEPT ![r] = "extracted"]
                          /\ UNCHANGED <<pos, resp, loop>>
    /\ UNCHANGED <<doc, jd, text, extracted, ocrRead, prompt, probeVars>>

\* main.py:114-115, 150-162: generate_content returns or raises
ServiceReturn(r) ==
    /\ pc[r] = "calling"
    /\ loop = r
    /\ \E o \in ServiceOutcomes(prompt[r][Len(prompt[r])]) :
          /\ memo' = memo \cup {<<prompt[r][Len(prompt[r])], o>>}
          /\ IF o.kind = "raise"
             THEN /\ Return(r, ExceptionResponse(o.text))
                  /\ raw' = raw
             ELSE /\ raw' = [raw EXCEPT ![r] = o.text]
                  /\ Return(r, ResponseFor(o.text))
    /\ UNCHANGED <<doc, jd, text, extracted, ocrRead, prompt, probeVars>>

\* a GET / arrives
ProbeArrive(p) ==
    /\ probe[p] = "idle"
    /\ probe' = [probe EXCEPT ![p] = "pending"]
    /\ UNCHANGED <<reqVars, loop, memo, probeResp>>

\* main.py:164-166: the event loop dispatches root() and sends its result
ProbeAnswer(p) ==
    /\ probe[p] = "pending"
    /\ loop = NoReq
    /\ probe' = [probe EXCEPT ![p] = "answered"]
    /\ probeResp' = [probeResp EXCEPT ![p] = Append(@, HealthResponse)]
    /\ UNCHANGED <<reqVars, loop, memo>>

Next ==
    \/ \E r \in Reqs, d \in Documents, j \in JobDescriptions : Receive(r, d, j)
    \/ \E r \in Reqs : ReadTextLayer(r)
    \/ \E r \in Reqs : Ocr(r)
    \/ \E r \in Reqs : Analyze(r)
    \/ \E r \in Reqs : ServiceReturn(r)
    \/ \E p \in Probes : ProbeArrive(p)
    \/ \E p \in Probes : ProbeAnswer(p)

Spec == Init /\ [][Next]_vars

\* The event loop takes its steps; nothing bounds the time generate_content
\* takes, so ServiceReturn is not fair.
FairSpec ==
    /\ Spec
    /\ \A r \in Reqs : WF_vars(ReadTextLayer(r)) /\ WF_vars(Ocr(r)) /\ WF_vars(Analyze(r))
    /\ \A p \in Probes : WF_vars(ProbeAnswer(p))

\* ===================================================================== claims
AllWhitespace(t) == \A i \in 1..Len(t) : t[i] \in Whitespace
Called(r) == prompt[r] # <<>>
Answered(r) == pc[r] = "responded" /\ Called(r)
\* the service's outcome for the call of an answered request
ReplyOf(r) == (CHOOSE m \in memo : m[1] = prompt[r][1])[2]

\* C1: a request whose extraction result is empty or whitespace-only is
\* answered with HTTP 400 and an `error` key, and the service is never called
\* for it.
C1_BlankExtractionIs400 ==
    \A r \in Reqs :
        (extracted[r] /\ AllWhitespace(text[r])) =>
            /\ ~Called(r)
            /\ pc[r] \in {"extracted", "responded"}
            /\ pc[r] = "responded" =>
                  /\ Len(resp[r]) = 1
                  /\ resp[r][1].status = 400
                  /\ "error" \in resp[r][1].fields

C1_Witness ==
    \E r \in Reqs :
        /\ pc[r] = "responded" /\ extracted[r]
        /\ text[r] # <<>> /\ AllWhitespace(text[r])
        /\ resp[r][1].status = 400

C3_ParsedJsonIs200 ==
    \A r \in Reqs :
        (Answered(r) /\ ReplyOf(r).kind = "text" /\ json_loads(ReplyOf(r).text).ok) =>
            /\ Len(resp[r]) = 1
            /\ resp[r][1].status = 200
            /\ resp[r][1].fields = {}
            /\ resp[r][1].content = json_loads(ReplyOf(r).text).val

\* C4: a request ends in exactly one response, which is either the success
\* response (200, the parsed body) or one error response (400 or 500) with an
\* `error` key and no success body.
C4_ExactlyOneTerminalResponse ==
    \A r \in Reqs :
        /\ Len(resp[r]) <= 1
        /\ (pc[r] = "responded") <=> (Len(resp[r]) = 1)
        /\ \A i \in 1..Len(resp[r]) :
              LET x == resp[r][i]
              IN  \/ /\ x.status = 200
                     /\ x.fields = {}
                     /\ x.error = <<>>
                     /\ x.content = json_loads(raw[r]).val
                  \/ /\ x.status \in {400, 500}
                     /\ "error" \in x.fields
                     /\ x.fields \subseteq {"error", "raw_response"}
                     /\ x.content = JNull

C4_Witness ==
    \E r, q \in Reqs :
        /\ pc[r] = "responded" /\ resp[r][1].status = 200
        /\ pc[q] = "responded" /\ resp[q][1].status = 400

\* C5: an exception raised by the text-layer reader, by the image renderer or
\* by the service call ends the request with HTTP 500 and an `error` key
\* holding the exception's message, and no later stage runs: a reader failure
\* triggers no OCR, an extraction failure reaches no service call.
C5_ExceptionIs500 ==
    \A r \in Reqs :
        LET is500(msg) == /\ Len(resp[r]) = 1
                          /\ resp[r][1].status = 500
                          /\ "error" \in resp[r][1].fields
                          /\ resp[r][1].error = msg
        IN  /\ (doc[r].fault = "reader" /\ pc[r] \notin {"idle", "received"}) =>
                  /\ pc[r] = "responded" /\ is500(ReaderError)
                  /\ ocrRead[r] = <<>> /\ ~extracted[r] /\ ~Called(r)
            /\ (doc[r].fault = "renderer" /\ ocrRead[r] # <<>>) =>
                  /\ pc[r] = "responded" /\ is500(RendererError)
                  /\ ~extracted[r] /\ ~Called(r)
            /\ (Answered(r) /\ ReplyOf(r).kind = "raise") =>
                  is500(ReplyOf(r).text)

C5_Witness ==
    /\ \E r \in Reqs : doc[r].fault = "reader" /\ pc[r] = "responded"
    /\ \E r \in Reqs : Answered(r) /\ ReplyOf(r).kind = "raise"

\* C6: the service call begins only after extraction has completed, and the
\* service is called at most once per request, whatever the call or the JSON
\* parse gives.
C6_SequentialNoRetry ==
    \A r \in Reqs :
        /\ Len(prompt[r]) <= 1
        /\ Called(r) => extracted[r] /\ pc[r] \in {"calling", "responded"}
        /\ pc[r] = "calling" => Called(r)

C6_Witness ==
    \E r \in Reqs :
        /\ Answered(r) /\ Len(prompt[r]) = 1
        /\ ReplyOf(r).kind = "text" /\ ~json_loads(ReplyOf(r).text).ok

\* the prompt q carries text t and job description j verbatim in the template
Verbatim(q, t, j) ==
    /\ Len(q) = Len(PromptHead) + Len(j) + Len(PromptMid) + Len(t) + Len(PromptTail)
    /\ SubSeq(q, 1, Len(PromptHead)) = PromptHead
    /\ SubSeq(q, Len(PromptHead) + 1, Len(PromptHead) + Len(j)) = j
    /\ SubSeq(q, Len(q) - Len(PromptTail) - Len(t) + 1, Len(q) - Len(PromptTail)) = t
    /\ SubSeq(q, Len(q) - Len(PromptTail) + 1, Len(q)) = PromptTail

\* C7 as stated: whenever the Extractor returns non-empty text, that text is
\* forwarded to the service verbatim inside the prompt.
C7_NonEmptyTextForwarded ==
    \A r \in Reqs :
        (extracted[r] /\ text[r] # <<>> /\ pc[r] \in {"calling", "responded"}) =>
            /\ Len(prompt[r]) = 1
            /\ Verbatim(prompt[r][1], text[r], jd[r])

\* C7 amended: whenever the Extractor returns text that is non-empty after
\* trimming whitespace, the untrimmed text is forwarded to the service verbatim
\* inside the prompt, together with the job description.
C7_NonBlankTextForwardedVerbatim ==
    \A r \in Reqs :
        /\ (extracted[r] /\ ~AllWhitespace(text[r])
                /\ pc[r] \in {"calling", "responded"}) =>
              /\ Len(prompt[r]) = 1
              /\ Verbatim(prompt[r][1], text[r], jd[r])
        /\ \A i \in 1..Len(prompt[r]) : Verbatim(prompt[r][i], text[r], jd[r])

C7_Witness ==
    \E r \in Reqs :
        /\ Called(r) /\ jd[r] # <<>>
        /\ text[r] = <<"a", "\n", " ">>

\* C8: if the newline-joined text layer has a non-whitespace character it is
\* returned unchanged and the OCR path is not run; otherwise, and only then,
\* the whole stream is read from its start, every page is rendered and OCR'd in
\* page order, and the concatenation of the page texts is returned.
C8_TwoStageExtraction ==
    \A r \in Reqs :
        LET hasText == ~AllWhitespace(TextLayer(doc[r]))
        IN  /\ ocrRead[r] # <<>> => ~hasText /\ ocrRead[r] = <<doc[r].pages>>
            /\ extracted[r] =>
                  IF hasText
                  THEN text[r] = TextLayer(doc[r]) /\ ocrRead[r] = <<>>
                  ELSE /\ ocrRead[r] = <<doc[r].pages>>
                       /\ text[r] = OcrText(doc[r].pages)

C8_Witness ==
    /\ \E r \in Reqs : extracted[r] /\ doc[r].pages = <<BlankPage, ScanPage>>
                       /\ text[r] = <<"\f", "b", "\f">>
    /\ \E r \in Reqs : extracted[r] /\ doc[r].pages = <<ScanPage, TextPage>>
                       /\ text[r] = <<"\n", "a">>

\* C9: two requests with the same document and job description get identical
\* responses from a deterministic service, however they interleave.
C9_SameInputsSameResponse ==
    \A r, q \in Reqs :
        (pc[r] = "responded" /\ pc[q] = "responded"
            /\ doc[r] = doc[q] /\ jd[r] = jd[q]) => resp[r] = resp[q]

C9_Witness ==
    \E r, q \in Reqs :
        /\ r # q /\ pc[r] = "responded" /\ pc[q] = "responded"
        /\ doc[r] = doc[q] /\ jd[r] = jd[q]
        /\ ocrRead[r] # <<>> /\ Len(doc[r].pages) = 2
        /\ resp[r][1].status = 200

\* C10: every GET / probe is eventually answered with HTTP 200 and the fixed
\* message, also while an /analyze_resume request waits for the service.
C10_ProbeEventuallyAnswered ==
    \A p \in Probes :
        (probe[p] = "pending") ~>
            (probe[p] = "answered" /\ probeResp[p] = <<HealthResponse>>)

====
